---------------------------- MODULE Spec2Model ----------------------------
(***************************************************************************)
(* A model of the error registry built by createErrorRegistry              *)
(* (errorRegistry.ts): two maps keyed by strings, the ordered seekers, the *)
(* optional baseError, createError's fallback chain and handleError's      *)
(* dispatch, with the handler's asynchronous completion.                   *)
(***************************************************************************)
EXTENDS Integers, Sequences, FiniteSets, TLC

VARIABLES
    errorRegistry,    \* Map<string, ErrorCreator>: a function on the keys present
    handlerRegistry,  \* Map<string, handler>: a function on the keys present
    seekers,          \* the seekers the closure captured at construction
    baseError,        \* the baseError the closure captured, or NoCreator
    calls,            \* handleError calls suspended at their await, by call slot
    last,             \* what the most recent operation did (observation only)
    other             \* a second registry, when two have been constructed

vars == <<errorRegistry, handlerRegistry, seekers, baseError, calls, last, other>>

-----------------------------------------------------------------------------
(* JavaScript values. Every value is a record; t is what typeof and the     *)
(* null check tell apart.                                                   *)

Undefined == [t |-> "undefined", s |-> "", n |-> 0]
Null == [t |-> "null", s |-> "", n |-> 0]
Str(s) == [t |-> "string", s |-> s, n |-> 0]
Num(n) == [t |-> "number", s |-> "", n |-> n]
\* A boolean; s holds the text String gives it.
Bool(b) == [t |-> "boolean", s |-> IF b THEN "true" ELSE "false", n |-> 0]

\* An object: its own properties (an absent property reads as Undefined) and
\* the name of its constructor ("" when it has none).
Obj(code, status, message, ctor) ==
    [t |-> "object",
     props |-> [p \in {"code", "status", "message"} |->
                   CASE p = "code" -> code
                     [] p = "status" -> status
                     [] OTHER -> message],
     ctor |-> ctor]

\* Variant: if (value), which is false for false, 0 and "" as well.
NotNullishTruthy(value) ==
    /\ value.t \notin {"null", "undefined"}
    /\ value # Bool(FALSE)
    /\ value # Num(0)
    /\ value # Str("")

\* value != null: false for null and for undefined only.
NotNullish(value) == value.t \notin {"null", "undefined"}

\* Variant: a number is kept apart from the string of its digits, as a Map
\* keeps the key 404 apart from the key "404".
StringKeepsNumbers(value) ==
    CASE value.t = "string" -> value.s
      [] value.t = "number" -> "number " \o ToString(value.n)
      [] value.t = "boolean" -> value.s
      [] value.t = "null" -> "null"
      [] value.t = "undefined" -> "undefined"
      [] OTHER -> "[object Object]"

\* String(value) for the primitives of the model.
String(value) ==
    CASE value.t = "string" -> value.s
      [] value.t = "number" -> ToString(value.n)
      [] value.t = "boolean" -> value.s
      [] value.t = "null" -> "null"
      [] value.t = "undefined" -> "undefined"
      [] OTHER -> "[object Object]"

\* record?.[seeker]: undefined when record is null or undefined.
Get(record, prop) ==
    IF record.t = "object" THEN record.props[prop] ELSE Undefined

-----------------------------------------------------------------------------
(* Map<string, V>.                                                          *)

EmptyMap == <<>>
MapHas(m, k) == k \in DOMAIN m
\* Map.prototype.get: the creator or handler, or "" standing for undefined.
MapGet(m, k) == IF k \in DOMAIN m THEN m[k] ELSE ""
\* Variant: an entry that is already there is kept.
MapSetIfAbsent(m, k, v) == [x \in (DOMAIN m) \cup {k} |-> IF x \in DOMAIN m THEN m[x] ELSE v]

\* Map.prototype.set
MapSet(m, k, v) == [x \in (DOMAIN m) \cup {k} |-> IF x = k THEN v ELSE m[x]]
\* Map.prototype.delete
MapDelete(m, k) == [x \in (DOMAIN m) \ {k} |-> m[x]]

-----------------------------------------------------------------------------
(* The creators and handlers the caller supplies.                           *)

NoCreator == ""
NoHandler == ""
\* Classes have a prototype property; arrow functions do not.
Classes == {"C1", "BaseC"}
Arrows == {"F2", "BaseF"}
Creators == {"C1", "F2"}
Handlers == {"H1", "H2"}

\* 'prototype' in creator
HasPrototype(creator) == creator \in Classes

\* What a call of a user function did, as the caller sees it.
Invocation(fn, how, args) == [fn |-> fn, how |-> how, args |-> args]

\* The value of createError: an instance a creator made (by, how, arg say
\* which call made it), or the generic Error with its message.
Instance(creator, how, data) ==
    [kind |-> "instance", by |-> creator, how |-> how, arg |-> data, message |-> ""]
GenericError(message) ==
    [kind |-> "Error", by |-> "", how |-> "", arg |-> Undefined, message |-> message]
NoValue == [kind |-> "none", by |-> "", how |-> "", arg |-> Undefined, message |-> ""]

\* The outcome of a synchronous call: a return value or an exception.
Returned(value, invoked) == [outcome |-> "returned", value |-> value, invoked |-> invoked]
Threw(what, invoked) ==
    [outcome |-> "threw", value |-> [NoValue EXCEPT !.message = what], invoked |-> invoked]


-----------------------------------------------------------------------------
(* createErrorRegistry: the construction-time configuration.                *)

defaultSeekers == <<"code", "status">>

\* createErrorRegistry() with no argument.
NoConfig ==
    [t |-> "undefined", seekers |-> <<>>, baseError |-> NoCreator,
     errors |-> EmptyMap, handlers |-> EmptyMap]

\* The configurations the model constructs a registry from: none, which
\* omits the seekers option with all the others; one with seekers: []; one
\* with seekers: ["status", "code"]. The code tests
\* config?.seekers && config.seekers.length > 0.
Configs ==
    { NoConfig,
      [t |-> "object", seekers |-> <<>>, baseError |-> "BaseF",
       errors |-> ("K1" :> "C1"), handlers |-> ("404" :> "H1")],
      [t |-> "object", seekers |-> <<"status", "code">>, baseError |-> "BaseC",
       errors |-> ("404" :> "F2"), handlers |-> ("CustomError" :> "H1")] }

\* Variant: the seekers option is taken as given, with no default.
OptsSeekersNoDefault(config) == config.seekers

\* opts.seekers
OptsSeekers(config) ==
    IF config.t = "object" /\ Len(config.seekers) > 0
    THEN config.seekers ELSE defaultSeekers

\* for (const [code, x] of Object.entries(entries)) registry.set(String(code), x)
RegisterEntries(entries) ==
    [k \in {String(Str(code)) : code \in DOMAIN entries} |->
        entries[CHOOSE code \in DOMAIN entries : String(Str(code)) = k]]

-----------------------------------------------------------------------------
(* createError                                                              *)

\* Variant: every creator is called as a plain function.
createErrorFromCreatorAlwaysCall(creator, data, throws) ==
    LET inv == <<Invocation(creator, "call", <<data>>)>>
    IN  IF throws THEN Threw("creator", inv)
        ELSE Returned(Instance(creator, "call", data), inv)

\* Variant: the call is in a try block, and the generic Error is returned
\* when the creator throws.
createErrorFromCreatorCatches(creator, data, throws) ==
    LET how == IF HasPrototype(creator) THEN "new" ELSE "call"
        inv == <<Invocation(creator, how, <<data>>)>>
    IN  IF throws THEN Returned(GenericError("Unknown error"), inv)
        ELSE Returned(Instance(creator, how, data), inv)

\* The creator is a class: new creator(data); otherwise creator(data). The
\* creator is the caller's code: it returns an instance or throws.
createErrorFromCreator(creator, data, throws) ==
    LET how == IF HasPrototype(creator) THEN "new" ELSE "call"
        inv == <<Invocation(creator, how, <<data>>)>>
    IN  IF throws THEN Threw("creator", inv)
        ELSE Returned(Instance(creator, how, data), inv)

\* Variant: the last matching seeker wins instead of the first.
SeekCreatorLastWins(data, i) ==
    LET hits == {j \in i..Len(seekers) :
                    /\ NotNullish(Get(data, seekers[j]))
                    /\ MapGet(errorRegistry, String(Get(data, seekers[j]))) # NoCreator}
    IN  IF hits = {} THEN NoCreator
        ELSE LET j == CHOOSE h \in hits : \A k \in hits : k <= h
             IN  MapGet(errorRegistry, String(Get(data, seekers[j])))

\* Variant: only the first seeker whose value is not null is looked up.
SeekCreatorFirstValueOnly(data, i) ==
    LET present == {j \in i..Len(seekers) : NotNullish(Get(data, seekers[j]))}
    IN  IF present = {} THEN NoCreator
        ELSE LET j == CHOOSE h \in present : \A k \in present : h <= k
             IN  MapGet(errorRegistry, String(Get(data, seekers[j])))

\* Variant: the loop ends at the first seeker whose value is null or
\* undefined instead of going on to the next.
RECURSIVE SeekCreatorStopsAtNull(_, _)
SeekCreatorStopsAtNull(data, i) ==
    IF i > Len(seekers) THEN NoCreator
    ELSE LET value == Get(data, seekers[i])
             creator == MapGet(errorRegistry, String(value))
         IN  IF ~NotNullish(value) THEN NoCreator
             ELSE IF creator # NoCreator THEN creator
             ELSE SeekCreatorStopsAtNull(data, i + 1)

\* The for loop of create from seeker i on: the creator of the first seeker
\* whose value is not null and whose key has an entry, or NoCreator.
RECURSIVE SeekCreator(_, _)
SeekCreator(data, i) ==
    IF i > Len(seekers) THEN NoCreator
    ELSE LET value == Get(data, seekers[i])
             creator == MapGet(errorRegistry, String(value))
         IN  IF NotNullish(value) /\ creator # NoCreator
             THEN creator
             ELSE SeekCreator(data, i + 1)

\* Variant: new Error(data?.message), with no default message.
LastResortNoDefault(data) ==
    LET message == Get(data, "message")
    IN  GenericError(IF message.t = "undefined" THEN "" ELSE String(message))

\* new Error(data?.message ?? "Unknown error")
LastResort(data) ==
    LET message == Get(data, "message")
    IN  GenericError(IF NotNullish(message) THEN String(message) ELSE "Unknown error")

\* Variant: baseError is tried before the registry.
createBaseFirst(data, throws) ==
    IF baseError # NoCreator
    THEN createErrorFromCreator(baseError, data, throws)
    ELSE LET creator == SeekCreator(data, 1)
         IN  IF creator # NoCreator
             THEN createErrorFromCreator(creator, data, throws)
             ELSE Returned(LastResort(data), <<>>)

\* Variant: no generic Error at the end; the function returns undefined.
createNoLastResort(data, throws) ==
    LET creator == SeekCreator(data, 1)
    IN  IF creator # NoCreator
        THEN createErrorFromCreator(creator, data, throws)
        ELSE IF baseError # NoCreator
             THEN createErrorFromCreator(baseError, data, throws)
             ELSE Returned(NoValue, <<>>)

\* Variant: baseError is never consulted.
createNoBase(data, throws) ==
    LET creator == SeekCreator(data, 1)
    IN  IF creator # NoCreator
        THEN createErrorFromCreator(creator, data, throws)
        ELSE Returned(LastResort(data), <<>>)

\* create: the registry entry of the first matching seeker, else baseError,
\* else the generic Error.
create(data, throws) ==
    LET creator == SeekCreator(data, 1)
    IN  IF creator # NoCreator
        THEN createErrorFromCreator(creator, data, throws)
        ELSE IF baseError # NoCreator
             THEN createErrorFromCreator(baseError, data, throws)
             ELSE Returned(LastResort(data), <<>>)

-----------------------------------------------------------------------------
(* handleError                                                              *)

\* Variant: only the first seeker whose value is not null is looked up.
SeekHandlerFirstValueOnly(error, i) ==
    LET present == {j \in i..Len(seekers) : NotNullish(Get(error, seekers[j]))}
    IN  IF present = {} THEN NoHandler
        ELSE LET j == CHOOSE h \in present : \A k \in present : h <= k
             IN  MapGet(handlerRegistry, String(Get(error, seekers[j])))

\* The first for loop of handleError from seeker i on: the handler of the
\* first seeker whose value is not null and whose key has an entry.
RECURSIVE SeekHandler(_, _)
SeekHandler(error, i) ==
    IF i > Len(seekers) THEN NoHandler
    ELSE LET value == Get(error, seekers[i])
             handler == MapGet(handlerRegistry, String(value))
         IN  IF NotNullish(value) /\ handler # NoHandler
             THEN handler
             ELSE SeekHandler(error, i + 1)

\* What a dispatch decides before its first await: the handlers the call
\* runs, in order, or the TypeError of reading a property of null.
Dispatch(handlers, threw) == [handlers |-> handlers, threw |-> threw]

\* Variant: no lookup by constructor name.
ConstructorFallbackNone(error) == Dispatch(<<>>, error.t # "object")

\* The name field of an error: its own when it has one, else the "Error" it
\* inherits from Error.prototype.
NameOf(error) == IF "name" \in DOMAIN error THEN error.name ELSE "Error"

\* Variant: the fallback looks up error.name.
ConstructorFallbackByNameField(error) ==
    IF error.t # "object" THEN Dispatch(<<>>, TRUE)
    ELSE LET handler == MapGet(handlerRegistry, NameOf(error))
         IN  IF NameOf(error) # "" /\ handler # NoHandler
             THEN Dispatch(<<handler>>, FALSE)
             ELSE Dispatch(<<>>, FALSE)

\* Variant: with no handler for the constructor name, some registered
\* handler is taken as a catch-all.
ConstructorFallbackAnyHandler(error) ==
    IF error.t # "object" THEN Dispatch(<<>>, TRUE)
    ELSE IF handlerRegistry # EmptyMap
         THEN Dispatch(<<handlerRegistry[CHOOSE k \in DOMAIN handlerRegistry : TRUE]>>,
                       FALSE)
         ELSE Dispatch(<<>>, FALSE)

\* The lookup by error.constructor.name. Reading .constructor of null or
\* undefined throws; an object without a constructor name finds nothing.
ConstructorFallback(error) ==
    IF error.t # "object" THEN Dispatch(<<>>, TRUE)
    ELSE LET constructorName == error.ctor
             handler == MapGet(handlerRegistry, constructorName)
         IN  IF constructorName # "" /\ handler # NoHandler
             THEN Dispatch(<<handler>>, FALSE)
             ELSE Dispatch(<<>>, FALSE)

\* Variant: no return after the seeker's handler, so the constructor name is
\* looked up as well.
handleErrorFallsThrough(error) ==
    LET handler == SeekHandler(error, 1)
    IN  IF handler # NoHandler
        THEN Dispatch(<<handler>> \o ConstructorFallback(error).handlers, FALSE)
        ELSE ConstructorFallback(error)

\* handleError up to the handler it awaits: a handler found by a seeker is
\* awaited and the function returns; only otherwise is the constructor name
\* looked up.
handleError(error) ==
    LET handler == SeekHandler(error, 1)
    IN  IF handler # NoHandler
        THEN Dispatch(<<handler>>, FALSE)
        ELSE ConstructorFallback(error)

\* Variant: handler(error, ctx) with a single optional context parameter.
HandlerCallOneContext(handler, error, ctx) ==
    Invocation(handler, "call", <<error, IF ctx = <<>> THEN Undefined ELSE Head(ctx)>>)

\* handler(error, ...ctx)
HandlerCall(handler, error, ctx) == Invocation(handler, "call", <<error>> \o ctx)

-----------------------------------------------------------------------------
(* The inputs the model draws.                                              *)

\* The data handed to createError: records with a message and every
\* combination of the values below for code and status, the empty record, a
\* record with a string status and no message, null and undefined.
CodeValues == {Undefined, Null, Str("K1"), Str("ZZ")}
StatusValues == {Undefined, Num(404)}
DataRecords ==
    {Obj(c, s, Str("boom"), "Object") : c \in CodeValues, s \in StatusValues}
    \cup {Obj(Undefined, Undefined, Undefined, "Object"),
          Obj(Undefined, Str("404"), Undefined, "Object"),
          Null, Undefined}

\* The (key, creator) pairs handed to registerError and the (key, handler)
\* pairs handed to registerHandler.
ErrorRegistrations ==
    {<<Str("K1"), "C1">>, <<Str("K1"), "F2">>, <<Str("404"), "F2">>, <<Num(404), "F2">>}
HandlerRegistrations ==
    {<<Str("K1"), "H1">>, <<Num(404), "H2">>}

\* The keys handed to unregisterError and to unregisterHandler.
ErrorRemovals == {Str("K1"), Num(404)}
HandlerRemovals == {Str("K1"), Num(404), Str("CustomError")}

\* The error values handed to handleError, and null and undefined.
ErrorCodes == {Undefined, Str("K1"), Str("ZZ")}
ErrorStatuses == {Undefined, Num(404)}
ErrorValues ==
    {Obj(c, s, Str("boom"), "CustomError") : c \in ErrorCodes, s \in ErrorStatuses}
    \cup {Obj(Undefined, Undefined, Str("boom"), "Error"), Null, Undefined}

\* The trailing context arguments of handleError.
Contexts == {<<>>, <<Str("ctxA"), Str("ctxB")>>}

\* What a handler does when called: return, throw, or return a promise that
\* is still pending.
Behaviours == {"returns", "throws", "async"}

-----------------------------------------------------------------------------
(* The state machine.                                                       *)

\* The observation of one operation.
Op(op, arg, ctx, outcome, value, invoked, call, hstate) ==
    [op |-> op, arg |-> arg, ctx |-> ctx, outcome |-> outcome, value |-> value,
     invoked |-> invoked, call |-> call, hstate |-> hstate]

\* The observation of a registration call: the key as given, and the creator
\* or handler given (for an unregister call, the entry it removed, if any).
Mutation(op, key, fn) ==
    [op |-> op, arg |-> key, ctx |-> <<>>, outcome |-> "returned", value |-> NoValue,
     invoked |-> <<>>, call |-> 0, hstate |-> "", fn |-> fn]

MaxCalls == 1
Slots == 1..MaxCalls
Free == [handler |-> NoHandler, hstate |-> "", rest |-> <<>>, n |-> 0]

\* The options a config object leaves out (none is recorded for the
\* configurations above, which give every option they mean to give).
Omitted(config) == IF "omitted" \in DOMAIN config THEN config.omitted ELSE {}

\* Variant: { ...config, errors: {}, handlers: {} }, where the defaults
\* overwrite what the config gives.
OptsEntriesDefaultsWin(config, option) == EmptyMap

\* opts.errors and opts.handlers of { errors: {}, handlers: {}, ...(config ?? {}) }:
\* the entries the config gives, {} for an option it omits.
OptsEntries(config, option) ==
    IF config.t = "object" /\ option \notin Omitted(config)
    THEN config[option] ELSE EmptyMap

\* createErrorRegistry(config): the state of the registry it returns.
Construct(config) ==
    /\ errorRegistry = RegisterEntries(OptsEntries(config, "errors"))
    /\ handlerRegistry = RegisterEntries(OptsEntries(config, "handlers"))
    /\ seekers = OptsSeekers(config)
    /\ baseError = config.baseError
    /\ calls = [c \in Slots |-> Free]
    /\ last = Op("createErrorRegistry", config, <<>>, "returned", NoValue, <<>>, 0, "")

\* What one call of createErrorRegistry captures in its closure: the two
\* maps it created, the seekers and the baseError.
Registry(errors, handlers, seekerList, base) ==
    [errorRegistry |-> errors, handlerRegistry |-> handlers,
     seekers |-> seekerList, baseError |-> base]

\* No second registry has been constructed.
NoRegistry == Registry(EmptyMap, EmptyMap, <<>>, NoCreator)

Init == \E config \in Configs : Construct(config) /\ other = NoRegistry

\* One call registry.createError(data). throws says whether the creator
\* create invokes throws; it is drawn only when create invokes one.
CreateErrorStep(data, throws) ==
    LET r == create(data, throws)
    IN  /\ throws => r.invoked # <<>>
        /\ last' = Op("createError", data, <<>>, r.outcome, r.value, r.invoked, 0,
                      IF throws THEN "threw" ELSE "")
        /\ UNCHANGED <<other, errorRegistry, handlerRegistry, seekers, baseError, calls>>

\* Variant: createError keeps the creator it used under the key of the first
\* seeker, for the next call.
CreateErrorMemoizes ==
    \E data \in DataRecords, throws \in BOOLEAN :
        LET r == create(data, throws)
        IN  /\ throws => r.invoked # <<>>
            /\ last' = Op("createError", data, <<>>, r.outcome, r.value, r.invoked, 0,
                          IF throws THEN "threw" ELSE "")
            /\ errorRegistry' =
                   IF r.invoked # <<>>
                   THEN MapSet(errorRegistry, String(Get(data, seekers[1])),
                               r.invoked[1].fn)
                   ELSE errorRegistry
            /\ UNCHANGED <<other, handlerRegistry, seekers, baseError, calls>>

\* registry.createError(data)
CreateError ==
    \E data \in DataRecords, throws \in BOOLEAN : CreateErrorStep(data, throws)

\* Variant: the maps live outside createErrorRegistry, so that an entry set
\* on one registry is set on every registry.
RegisterErrorStepShared(reg) ==
    /\ errorRegistry' = MapSet(errorRegistry, String(reg[1]), reg[2])
    /\ other' = [other EXCEPT !.errorRegistry = MapSet(@, String(reg[1]), reg[2])]
    /\ last' = Mutation("registerError", reg[1], reg[2])
    /\ UNCHANGED <<handlerRegistry, seekers, baseError, calls>>

\* Variant: the first creator registered on a registry without a baseError
\* becomes its baseError.
RegisterErrorStepAdoptsBase(reg) ==
    /\ errorRegistry' = MapSet(errorRegistry, String(reg[1]), reg[2])
    /\ baseError' = IF baseError = NoCreator THEN reg[2] ELSE baseError
    /\ last' = Mutation("registerError", reg[1], reg[2])
    /\ UNCHANGED <<other, handlerRegistry, seekers, calls>>

\* One call registry.registerError(key, creator): the entry is set under the
\* string form of the key.
RegisterErrorStep(reg) ==
    /\ errorRegistry' = MapSet(errorRegistry, String(reg[1]), reg[2])
    /\ last' = Mutation("registerError", reg[1], reg[2])
    /\ UNCHANGED <<other, handlerRegistry, seekers, baseError, calls>>

\* Variant: a suspended call holds the key, not the handler, so that the
\* handler registered over the entry it awaits takes its place.
RegisterHandlerStepRebinds(reg) ==
    /\ handlerRegistry' = MapSet(handlerRegistry, String(reg[1]), reg[2])
    /\ calls' = [c \in DOMAIN calls |->
                    IF /\ calls[c].handler # NoHandler
                       /\ calls[c].handler = MapGet(handlerRegistry, String(reg[1]))
                    THEN [calls[c] EXCEPT !.handler = reg[2]]
                    ELSE calls[c]]
    /\ last' = Mutation("registerHandler", reg[1], reg[2])
    /\ UNCHANGED <<other, errorRegistry, seekers, baseError>>

\* One call registry.registerHandler(key, fn)
RegisterHandlerStep(reg) ==
    /\ handlerRegistry' = MapSet(handlerRegistry, String(reg[1]), reg[2])
    /\ last' = Mutation("registerHandler", reg[1], reg[2])
    /\ UNCHANGED <<other, errorRegistry, seekers, baseError, calls>>

\* Variant: registerError sets the entry in the handler map.
RegisterErrorInHandlerMap ==
    \E reg \in ErrorRegistrations :
        /\ handlerRegistry' = MapSet(handlerRegistry, String(reg[1]), reg[2])
        /\ last' = Mutation("registerError", reg[1], reg[2])
        /\ UNCHANGED <<other, errorRegistry, seekers, baseError, calls>>

\* Variant: the registration is staged and not yet in the map when the call
\* returns.
RegisterErrorStaged ==
    \E reg \in ErrorRegistrations :
        /\ last' = Mutation("registerError", reg[1], reg[2])
        /\ UNCHANGED <<other, errorRegistry, handlerRegistry, seekers, baseError, calls>>

\* registry.registerError(key, creator)
RegisterError ==
    \E reg \in ErrorRegistrations : RegisterErrorStep(reg)

\* registry.registerHandler(key, fn)
RegisterHandler ==
    \E reg \in HandlerRegistrations : RegisterHandlerStep(reg)

\* Variant: unregisterError removes the key from the handler map as well.
UnregisterErrorBothMaps ==
    \E key \in ErrorRemovals :
        /\ errorRegistry' = MapDelete(errorRegistry, String(key))
        /\ handlerRegistry' = MapDelete(handlerRegistry, String(key))
        /\ last' = Mutation("unregisterError", key, MapGet(errorRegistry, String(key)))
        /\ UNCHANGED <<other, seekers, baseError, calls>>

\* registry.unregisterError(key): the entry under the string form of key is
\* removed if there is one.
UnregisterError ==
    \E key \in ErrorRemovals :
        /\ errorRegistry' = MapDelete(errorRegistry, String(key))
        /\ last' = Mutation("unregisterError", key, MapGet(errorRegistry, String(key)))
        /\ UNCHANGED <<other, handlerRegistry, seekers, baseError, calls>>

\* registry.unregisterHandler(key)
UnregisterHandler ==
    \E key \in HandlerRemovals :
        /\ handlerRegistry' = MapDelete(handlerRegistry, String(key))
        /\ last' = Mutation("unregisterHandler", key, MapGet(handlerRegistry, String(key)))
        /\ UNCHANGED <<other, errorRegistry, seekers, baseError, calls>>

\* Variant: clear() empties the error map only.
ClearErrorsOnly ==
    /\ errorRegistry' = EmptyMap
    /\ last' = Mutation("clear", Undefined, "")
    /\ UNCHANGED <<other, handlerRegistry, seekers, baseError, calls>>

\* registry.clear(): both maps are emptied.
Clear ==
    /\ errorRegistry' = EmptyMap
    /\ handlerRegistry' = EmptyMap
    /\ last' = Mutation("clear", Undefined, "")
    /\ UNCHANGED <<other, seekers, baseError, calls>>

\* The slot of a call suspended at await handler(...): the handler awaited,
\* the state of what it returned, the handlers still to run after it, and
\* the number of handlers the call has invoked.
Awaiting(handler, hstate, rest, n) ==
    [handler |-> handler, hstate |-> hstate, rest |-> rest, n |-> n]

\* The state of the awaited value once handler has been called.
Called(behaviour) == IF behaviour = "async" THEN "pending" ELSE "fulfilled"

\* What the promise of handleError is rejected with: what the handler threw
\* or rejected with, or the TypeError of reading a property of null.
HandlerFailure == [NoValue EXCEPT !.message = "handler"]
TypeError == [NoValue EXCEPT !.message = "TypeError"]

\* Variant: the await is in a try block that swallows the failure.
AfterAwaitSwallows(hstate) == [outcome |-> "resolved", value |-> NoValue]

\* await handler(error, ...ctx) stands in no try block: when the handler
\* threw or what it returned is rejected, the call is rejected with the same;
\* otherwise the call returns.
AfterAwait(hstate) ==
    IF hstate \in {"threw", "rejected"}
    THEN [outcome |-> "rejected", value |-> HandlerFailure]
    ELSE [outcome |-> "resolved", value |-> NoValue]

\* Variant: handleError takes a lock, so that a call waits while another
\* call is suspended in its handler.
HandleErrorStepSerialised(error, ctx, behaviour) ==
    /\ \A c \in DOMAIN calls : calls[c] = Free
    /\ LET d == handleError(error)
       IN  IF d.handlers = <<>>
           THEN /\ behaviour = "returns"
                /\ last' = Op("handleError", error, ctx,
                              IF d.threw THEN "rejected" ELSE "resolved",
                              IF d.threw THEN TypeError ELSE NoValue, <<>>, 0, "")
                /\ UNCHANGED <<other, errorRegistry, handlerRegistry, seekers,
                               baseError, calls>>
           ELSE LET inv == <<HandlerCall(Head(d.handlers), error, ctx)>>
                IN  IF behaviour = "throws"
                    THEN /\ last' = Op("handleError", error, ctx, "rejected",
                                       HandlerFailure, inv, 0, "threw")
                         /\ UNCHANGED <<other, errorRegistry, handlerRegistry, seekers,
                                        baseError, calls>>
                    ELSE /\ calls' = [calls EXCEPT ![1] =
                                Awaiting(Head(d.handlers), Called(behaviour),
                                         Tail(d.handlers), 1)]
                         /\ last' = Op("handleError", error, ctx, "pending",
                                       NoValue, inv, 1, Called(behaviour))
                         /\ UNCHANGED <<other, errorRegistry, handlerRegistry, seekers,
                                        baseError>>

\* One call registry.handleError(error, ...ctx): the synchronous part, up to
\* the first await or, with no handler, to the end. A handler that throws when
\* called rejects the promise of the async function at once. behaviour is
\* what the handler does; it is drawn only when a handler is called.
HandleErrorStep(error, ctx, behaviour) ==
    LET d == handleError(error)
    IN  IF d.handlers = <<>>
        THEN /\ behaviour = "returns"
             /\ last' = Op("handleError", error, ctx,
                           IF d.threw THEN "rejected" ELSE "resolved",
                           IF d.threw THEN TypeError ELSE NoValue, <<>>, 0, "")
             /\ UNCHANGED <<other, errorRegistry, handlerRegistry, seekers, baseError, calls>>
        ELSE LET inv == <<HandlerCall(Head(d.handlers), error, ctx)>>
             IN  IF behaviour = "throws"
                 THEN /\ last' = Op("handleError", error, ctx,
                                    AfterAwait("threw").outcome,
                                    AfterAwait("threw").value, inv, 0, "threw")
                      /\ UNCHANGED <<other, errorRegistry, handlerRegistry, seekers,
                                     baseError, calls>>
                 ELSE \E c \in DOMAIN calls :
                        /\ calls[c] = Free
                        /\ \A b \in DOMAIN calls : b < c => calls[b] # Free
                        /\ calls' = [calls EXCEPT ![c] =
                               Awaiting(Head(d.handlers), Called(behaviour),
                                        Tail(d.handlers), 1)]
                        /\ last' = Op("handleError", error, ctx, "pending",
                                      NoValue, inv, c, Called(behaviour))
                        /\ UNCHANGED <<other, errorRegistry, handlerRegistry, seekers,
                                       baseError>>

\* registry.handleError(error, ...ctx)
HandleError ==
    \E error \in ErrorValues, ctx \in Contexts, behaviour \in Behaviours :
        HandleErrorStep(error, ctx, behaviour)

\* The promise an asynchronous handler returned settles.
HandlerSettles ==
    \E c \in DOMAIN calls, hstate \in {"fulfilled", "rejected"} :
        /\ calls[c] # Free
        /\ calls[c].hstate = "pending"
        /\ calls' = [calls EXCEPT ![c].hstate = hstate]
        /\ UNCHANGED <<other, errorRegistry, handlerRegistry, seekers, baseError, last>>

\* Variant: the handler is not awaited.
MayResumeAnyTime(call) == TRUE

\* await: the call may go on once the awaited value has settled.
MayResume(call) == call.hstate # "pending"

\* The continuation of the await of call c. A rejected handler promise makes
\* the await throw, which rejects the call; otherwise the call runs the next
\* handler of its dispatch, if any, and else resolves.
Resume ==
    \E c \in DOMAIN calls, behaviour \in Behaviours :
        /\ calls[c] # Free
        /\ MayResume(calls[c])
        /\ IF calls[c].hstate = "fulfilled" /\ calls[c].rest # <<>>
           THEN /\ behaviour # "throws"
                /\ calls' = [calls EXCEPT ![c] =
                       Awaiting(Head(calls[c].rest), Called(behaviour),
                                Tail(calls[c].rest), calls[c].n + 1)]
                /\ last' = Op("handleErrorResumed", Undefined, <<>>, "pending", NoValue,
                              <<Invocation(Head(calls[c].rest), "call", <<>>)>>,
                              c, Called(behaviour))
           ELSE /\ behaviour = "returns"
                /\ calls' = [calls EXCEPT ![c] = Free]
                /\ last' = Op("handleErrorSettled", Undefined, <<>>,
                              AfterAwait(calls[c].hstate).outcome,
                              AfterAwait(calls[c].hstate).value,
                              <<Invocation(calls[c].handler, "call", <<>>)>>,
                              c, calls[c].hstate)
        /\ UNCHANGED <<other, errorRegistry, handlerRegistry, seekers, baseError>>

Next ==
    \/ CreateError
    \/ HandleError
    \/ HandlerSettles
    \/ Resume
    \/ RegisterError
    \/ RegisterHandler
    \/ UnregisterError
    \/ UnregisterHandler
    \/ Clear

Spec == Init /\ [][Next]_vars

-----------------------------------------------------------------------------
(* The same registry driven with falsy seeker values: false, 0 and the      *)
(* empty string as the code or the status of a record, and as the key of a  *)
(* registration.                                                            *)

FalsyValues == {Bool(FALSE), Num(0), Str("")}
FalsyCodes == FalsyValues \cup {Null, Undefined}
FalsyStatuses == {Undefined, Num(0)}
FalsyData == {Obj(c, s, Str("boom"), "Object") : c \in FalsyCodes, s \in FalsyStatuses}
FalsyErrors ==
    {Obj(c, s, Str("boom"), "CustomError") : c \in FalsyCodes, s \in FalsyStatuses}
FalsyErrorRegistrations ==
    {<<Bool(FALSE), "C1">>, <<Num(0), "F2">>, <<Str(""), "C1">>}
FalsyHandlerRegistrations ==
    {<<Bool(FALSE), "H1">>, <<Num(0), "H2">>, <<Str(""), "H1">>}

CreateErrorFalsy ==
    \E data \in FalsyData : CreateErrorStep(data, FALSE)

HandleErrorFalsy ==
    \E error \in FalsyErrors, behaviour \in Behaviours :
        HandleErrorStep(error, <<>>, behaviour)

RegisterErrorFalsy ==
    \E reg \in FalsyErrorRegistrations : RegisterErrorStep(reg)

RegisterHandlerFalsy ==
    \E reg \in FalsyHandlerRegistrations : RegisterHandlerStep(reg)

NextFalsy ==
    \/ CreateErrorFalsy
    \/ HandleErrorFalsy
    \/ HandlerSettles
    \/ Resume
    \/ RegisterErrorFalsy
    \/ RegisterHandlerFalsy

SpecFalsy == Init /\ [][NextFalsy]_vars

-----------------------------------------------------------------------------
(* Registries constructed from configs that leave options out, and from     *)
(* the configs above; the operations are createError, handleError and the   *)
(* two registrations.                                                       *)

\* A config with errors only, one with handlers only, and the empty object.
\* The key ZZ is given by these configs and by no registration.
ConfigsWithOmissions ==
    { [t |-> "object", seekers |-> <<>>, baseError |-> NoCreator,
       errors |-> ("ZZ" :> "C1") @@ ("404" :> "F2"), handlers |-> EmptyMap,
       omitted |-> {"seekers", "baseError", "handlers"}],
      [t |-> "object", seekers |-> <<>>, baseError |-> NoCreator,
       errors |-> EmptyMap, handlers |-> ("ZZ" :> "H2"),
       omitted |-> {"seekers", "baseError", "errors"}],
      [t |-> "object", seekers |-> <<>>, baseError |-> NoCreator,
       errors |-> EmptyMap, handlers |-> EmptyMap,
       omitted |-> {"seekers", "baseError", "errors", "handlers"}] }

InitConfigs ==
    \E config \in Configs \cup ConfigsWithOmissions :
        Construct(config) /\ other = NoRegistry

NextConfigs ==
    \/ CreateError
    \/ HandleError
    \/ HandlerSettles
    \/ Resume
    \/ RegisterError
    \/ RegisterHandler

SpecConfigs == InitConfigs /\ [][NextConfigs]_vars

-----------------------------------------------------------------------------
(* Two registries, each from its own call of createErrorRegistry, possibly  *)
(* on the same config. The variables of the registry are those of the one   *)
(* the caller is calling; other holds the one it is not calling.            *)

\* The closure createErrorRegistry(config) returns: new maps filled from the
\* config, its seekers and its baseError.
Built(config) ==
    Registry(RegisterEntries(OptsEntries(config, "errors")),
             RegisterEntries(OptsEntries(config, "handlers")),
             OptsSeekers(config), config.baseError)

InitTwo ==
    \E config \in Configs, config2 \in Configs :
        Construct(config) /\ other = Built(config2)

\* The caller turns to the other registry.
Select ==
    /\ errorRegistry' = other.errorRegistry
    /\ handlerRegistry' = other.handlerRegistry
    /\ seekers' = other.seekers
    /\ baseError' = other.baseError
    /\ other' = Registry(errorRegistry, handlerRegistry, seekers, baseError)
    /\ last' = Op("select", Undefined, <<>>, "returned", NoValue, <<>>, 0, "")
    /\ UNCHANGED calls

TwoData == {Obj(Str("K1"), Num(404), Str("boom"), "Object")}
TwoErrors == {Obj(Str("K1"), Undefined, Str("boom"), "CustomError")}

CreateErrorTwo == \E data \in TwoData : CreateErrorStep(data, FALSE)

HandleErrorTwo == \E error \in TwoErrors : HandleErrorStep(error, <<>>, "returns")

RegisterErrorTwo == RegisterErrorStep(<<Str("K1"), "F2">>)

RegisterHandlerTwo == RegisterHandlerStep(<<Str("K1"), "H2">>)

NextTwo ==
    \/ Select
    \/ CreateErrorTwo
    \/ HandleErrorTwo
    \/ Resume
    \/ RegisterErrorTwo
    \/ RegisterHandlerTwo
    \/ UnregisterError
    \/ UnregisterHandler
    \/ Clear

SpecTwo == InitTwo /\ [][NextTwo]_vars

-----------------------------------------------------------------------------
(* Overlapping handleError calls: up to MaxOverlap calls suspended in their *)
(* handlers at a time, on one registry.                                     *)

MaxOverlap == 2

InitOverlap ==
    \E config \in Configs :
        /\ errorRegistry = Built(config).errorRegistry
        /\ handlerRegistry = Built(config).handlerRegistry
        /\ seekers = Built(config).seekers
        /\ baseError = Built(config).baseError
        /\ calls = [c \in 1..MaxOverlap |-> Free]
        /\ last = Op("createErrorRegistry", config, <<>>, "returned", NoValue, <<>>, 0, "")
        /\ other = NoRegistry

OverlapErrors ==
    {Obj(Str("K1"), Undefined, Str("boom"), "CustomError"),
     Obj(Undefined, Num(404), Str("boom"), "CustomError")}

HandleErrorOverlap ==
    \E error \in OverlapErrors, behaviour \in Behaviours :
        HandleErrorStep(error, <<>>, behaviour)

RegisterHandlerOverlap ==
    \E reg \in HandlerRegistrations : RegisterHandlerStep(reg)

NextOverlap ==
    \/ HandleErrorOverlap
    \/ HandlerSettles
    \/ Resume
    \/ CreateErrorTwo
    \/ RegisterErrorTwo
    \/ RegisterHandlerOverlap

SpecOverlap == InitOverlap /\ [][NextOverlap]_vars

-----------------------------------------------------------------------------
(* Errors with a name field, and handlers registered under type names.      *)

\* The error with its name field set.
Named(error, name) ==
    [t |-> error.t, props |-> error.props, ctor |-> error.ctor, name |-> name]

\* The generic Error, whose name is "Error"; Errors a factory gave another
\* name, with and without a code; and an instance of a class CustomError
\* that set its name.
NamedErrors ==
    {Named(Obj(Undefined, Undefined, Str("boom"), "Error"), "Error"),
     Named(Obj(Undefined, Undefined, Str("boom"), "Error"), "ValidationError"),
     Named(Obj(Str("K1"), Undefined, Str("boom"), "Error"), "ValidationError"),
     Named(Obj(Undefined, Undefined, Str("boom"), "CustomError"), "ValidationError")}

NameRegistrations ==
    {<<Str("Error"), "H1">>, <<Str("ValidationError"), "H2">>, <<Str("K1"), "H2">>}

HandleErrorNamed ==
    \E error \in NamedErrors, behaviour \in Behaviours :
        HandleErrorStep(error, <<>>, behaviour)

RegisterHandlerNamed ==
    \E reg \in NameRegistrations : RegisterHandlerStep(reg)

NextNamed ==
    \/ CreateErrorTwo
    \/ HandleErrorNamed
    \/ HandlerSettles
    \/ Resume
    \/ RegisterHandlerNamed

SpecNamed == Init /\ [][NextNamed]_vars

-----------------------------------------------------------------------------
(* The vocabulary of the properties.                                        *)

\* The key seeker i reads from a record.
KeyAt(record, i) == String(Get(record, seekers[i]))

\* The seekers whose value in the record is not null and whose key has an
\* entry in the registry.
Matching(registry, record) ==
    {i \in 1..Len(seekers) :
        NotNullish(Get(record, seekers[i])) /\ MapHas(registry, KeyAt(record, i))}

\* The first of them in seeker order.
FirstMatching(registry, record) ==
    CHOOSE i \in Matching(registry, record) :
        \A j \in Matching(registry, record) : i <= j

\* createError has just been called and invoked no creator that threw.
Created == last.op = "createError"
CreatorThrew == last.outcome = "threw" /\ last.value.message = "creator"

\* The value creator C makes of data, however C is called.
MadeBy(value, C, data) ==
    value.kind = "instance" /\ value.by = C /\ value.arg = data

\* C was invoked once, with data as its only argument, and nothing else was.
InvokedOnce(C, data) ==
    /\ Len(last.invoked) = 1
    /\ last.invoked[1].fn = C
    /\ last.invoked[1].args = <<data>>

\* C1: when a seeker of data yields a key with an entry C in the error
\* mapping, createError(data) invokes C once with data alone and returns what
\* C made, whether or not a baseError is configured.
C1_RegisteredCreatorMakesTheError ==
    (Created /\ Matching(errorRegistry, last.arg) # {}) =>
        LET data == last.arg
            C == errorRegistry[KeyAt(data, FirstMatching(errorRegistry, data))]
        IN  /\ InvokedOnce(C, data)
            /\ ~CreatorThrew => (last.outcome = "returned" /\ MadeBy(last.value, C, data))

C1_Witness ==
    /\ Created
    /\ baseError # NoCreator
    /\ Matching(errorRegistry, last.arg) # {}
    /\ last.outcome = "returned"
    /\ last.value.by \in Creators

\* C3: when no seeker of data yields a key with an entry and a baseError is
\* configured, createError(data) returns what baseError made of data and not
\* the generic Error.
C3_BaseErrorWhenNoCreator ==
    (Created /\ Matching(errorRegistry, last.arg) = {} /\ baseError # NoCreator) =>
        /\ InvokedOnce(baseError, last.arg)
        /\ ~CreatorThrew => (last.outcome = "returned"
                             /\ MadeBy(last.value, baseError, last.arg))

C3_Witness ==
    /\ Created
    /\ baseError # NoCreator
    /\ NotNullish(Get(last.arg, "code"))
    /\ Matching(errorRegistry, last.arg) = {}
    /\ last.outcome = "returned"
    /\ last.value.by = baseError

\* C4: with no seeker of data yielding a key with an entry and no baseError,
\* createError(data) returns the generic Error whose message is data.message
\* when that is present and "Unknown error" otherwise.
C4_GenericErrorMessage ==
    (Created /\ Matching(errorRegistry, last.arg) = {} /\ baseError = NoCreator) =>
        LET message == Get(last.arg, "message")
        IN  /\ last.outcome = "returned"
            /\ last.invoked = <<>>
            /\ last.value.kind = "Error"
            /\ last.value.message =
                   IF message.t = "string" THEN message.s ELSE "Unknown error"

C4_Witness ==
    /\ Created
    /\ baseError = NoCreator
    /\ last.value.kind = "Error"
    /\ last.value.message = "Unknown error"
    /\ last.arg.t = "object"

\* C5: createError throws only what a creator it invoked threw, and what it
\* returns is an error value, never null: for the empty record, for null or
\* undefined seeker fields and for null or undefined data alike.
C5_CreateErrorTotal ==
    Created =>
        /\ last.outcome \in {"returned", "threw"}
        /\ last.outcome = "threw" => (CreatorThrew /\ last.invoked # <<>>)
        /\ last.outcome = "returned" => last.value.kind \in {"instance", "Error"}

C5_Witness ==
    /\ Created
    /\ last.arg \in {Null, Undefined}
    /\ last.outcome = "returned"
    /\ last.value.kind = "Error"

\* handleError has just been called (its synchronous part has run).
Handled == last.op = "handleError"

\* Both of the first two seekers have a value in the record, and both keys
\* have an entry in the registry.
BothKeysRegistered(registry, record) ==
    /\ Len(seekers) >= 2
    /\ {1, 2} \subseteq Matching(registry, record)

\* C2: when the first and the second seeker both yield a registered key,
\* createError uses the creator of the first seeker's key and handleError
\* invokes the handler of the first seeker's key; nothing else is invoked.
C2_FirstSeekerHasPriority ==
    /\ (Created /\ BothKeysRegistered(errorRegistry, last.arg)) =>
           LET C == errorRegistry[KeyAt(last.arg, 1)]
           IN  /\ InvokedOnce(C, last.arg)
               /\ ~CreatorThrew => MadeBy(last.value, C, last.arg)
    /\ (Handled /\ BothKeysRegistered(handlerRegistry, last.arg)) =>
           /\ last.invoked =
                  <<HandlerCall(handlerRegistry[KeyAt(last.arg, 1)], last.arg, last.ctx)>>
           /\ last.call # 0 => calls[last.call].rest = <<>>

C2_Witness ==
    /\ Handled
    /\ BothKeysRegistered(handlerRegistry, last.arg)
    /\ BothKeysRegistered(errorRegistry, last.arg)
    /\ handlerRegistry[KeyAt(last.arg, 1)] # handlerRegistry[KeyAt(last.arg, 2)]
    /\ errorRegistry[KeyAt(last.arg, 1)] # errorRegistry[KeyAt(last.arg, 2)]
    /\ last.invoked # <<>>

\* C6: the handler handleError locates is called with the error first and
\* then every context value, in the order given, and nothing else.
C6_HandlerArguments ==
    (Handled /\ last.invoked # <<>>) =>
        /\ last.invoked[1].how = "call"
        /\ last.invoked[1].args = <<last.arg>> \o last.ctx

C6_Witness ==
    /\ Handled
    /\ Len(last.invoked) = 1
    /\ Len(last.ctx) = 2
    /\ last.ctx[1] # last.ctx[2]

\* C7: when no seeker of the error yields a key with a handler and a handler
\* is registered under the name of the error's constructor, handleError
\* invokes that handler.
C7_ConstructorNameFallback ==
    ( /\ Handled
      /\ last.arg.t = "object"
      /\ Matching(handlerRegistry, last.arg) = {}
      /\ MapHas(handlerRegistry, last.arg.ctor) ) =>
        last.invoked = <<HandlerCall(handlerRegistry[last.arg.ctor], last.arg, last.ctx)>>

C7_Witness ==
    /\ Handled
    /\ last.arg.t = "object"
    /\ \A i \in 1..Len(seekers) : ~NotNullish(Get(last.arg, seekers[i]))
    /\ MapHas(handlerRegistry, last.arg.ctor)
    /\ Len(last.invoked) = 1

\* Neither the seekers nor the constructor name of the error lead to a handler.
NoHandlerFor(error) ==
    /\ Matching(handlerRegistry, error) = {}
    /\ ~(error.t = "object" /\ MapHas(handlerRegistry, error.ctor))

\* C8: a handleError call that finds no handler by either lookup completes
\* normally: its promise is not rejected, no handler is invoked and neither
\* mapping changes.
C8_NoHandlerCompletesNormally ==
    [][(last'.op = "handleError" /\ NoHandlerFor(last'.arg)) =>
          /\ last'.outcome = "resolved"
          /\ last'.invoked = <<>>
          /\ UNCHANGED <<errorRegistry, handlerRegistry>>]_vars

\* C9: a handleError call invokes at most one handler and invokes it once:
\* the handler of a seeker's key when there is one, with no further lookup by
\* constructor name or by a later seeker.
C9_AtMostOneHandler ==
    /\ \A c \in Slots : calls[c] # Free => (calls[c].n = 1 /\ calls[c].rest = <<>>)
    /\ last.op # "handleErrorResumed"
    /\ Handled =>
          /\ Len(last.invoked) <= 1
          /\ Matching(handlerRegistry, last.arg) # {} =>
                 last.invoked =
                     <<HandlerCall(
                         handlerRegistry[KeyAt(last.arg,
                             FirstMatching(handlerRegistry, last.arg))],
                         last.arg, last.ctx)>>

C9_Witness ==
    /\ Handled
    /\ last.arg.t = "object"
    /\ Cardinality(Matching(handlerRegistry, last.arg)) = 2
    /\ MapHas(handlerRegistry, last.arg.ctor)
    /\ handlerRegistry[last.arg.ctor] # handlerRegistry[KeyAt(last.arg, 1)]
    /\ last.outcome = "pending"

\* C10: the promise of handleError settles only after what the handler it
\* invoked returned has settled, never while that is pending; a call that
\* finds no handler settles at once, awaiting nothing.
C10_SettlesAfterHandler ==
    /\ last.op = "handleErrorSettled" =>
          /\ last.hstate \in {"fulfilled", "rejected"}
          /\ last.outcome = "resolved" <=> last.hstate = "fulfilled"
    /\ (Handled /\ last.invoked = <<>>) =>
          (last.outcome \in {"resolved", "rejected"} /\ last.call = 0)
    /\ (Handled /\ last.outcome = "resolved") => last.invoked = <<>>
    /\ \A c \in Slots : calls[c] # Free => calls[c].handler # NoHandler

C10_Witness ==
    /\ last.op = "handleErrorSettled"
    /\ last.outcome = "resolved"
    /\ last.hstate = "fulfilled"

-----------------------------------------------------------------------------
(* Registration, removal and clearing.                                      *)

\* The record resolves to key in the registry: key is the key of the first
\* seeker whose value is not null and whose key has an entry.
ResolvesTo(registry, record, key) ==
    /\ Matching(registry, record) # {}
    /\ KeyAt(record, FirstMatching(registry, record)) = key

\* after is before with fn under key, whatever before held there, and every
\* other entry as it was.
SetsEntry(before, after, key, fn) ==
    /\ DOMAIN after = (DOMAIN before) \cup {key}
    /\ after[key] = fn
    /\ \A k \in (DOMAIN before) \ {key} : after[k] = before[k]

\* One function was invoked, fn, and what was returned, if anything, is of
\* fn's making.
UsedOnly(obs, fn) ==
    /\ Len(obs.invoked) = 1
    /\ obs.invoked[1].fn = fn
    /\ obs.outcome = "returned" => (obs.value.kind = "instance" /\ obs.value.by = fn)

\* C11: registerError(key, creator) leaves creator as the one entry of the
\* key, whatever creator the configuration or an earlier registerError had put
\* there, and leaves the other entries alone; a createError that follows on
\* data resolving to the key invokes the new creator and returns its
\* instance, never the replaced one's.
C11_RegisterErrorOverwrites ==
    [][/\ last'.op = "registerError" =>
              SetsEntry(errorRegistry, errorRegistry', String(last'.arg), last'.fn)
       /\ (/\ last.op = "registerError"
           /\ last'.op = "createError"
           /\ ResolvesTo(errorRegistry, last'.arg, String(last.arg))) =>
              UsedOnly(last', last.fn)]_vars

\* createError has used F2 for the key K1 in the registry that was
\* constructed with C1 under K1: C1 was replaced by registerError.
C11_Witness ==
    /\ Created
    /\ baseError = "BaseF"
    /\ ResolvesTo(errorRegistry, last.arg, "K1")
    /\ last.outcome = "returned"
    /\ last.value.by = "F2"

\* C12: registerHandler(key, fn) replaces the handler the key had, silently;
\* a handleError that follows on an error resolving to the key calls the new
\* handler once, with nothing queued after it, and never the replaced one.
C12_RegisterHandlerReplaces ==
    [][/\ last'.op = "registerHandler" =>
              /\ SetsEntry(handlerRegistry, handlerRegistry', String(last'.arg), last'.fn)
              /\ last'.outcome = "returned"
       /\ (/\ last.op = "registerHandler"
           /\ last'.op = "handleError"
           /\ ResolvesTo(handlerRegistry, last'.arg, String(last.arg))) =>
              /\ last'.invoked = <<HandlerCall(last.fn, last'.arg, last'.ctx)>>
              /\ last'.call # 0 =>
                     /\ calls'[last'.call].handler = last.fn
                     /\ calls'[last'.call].rest = <<>>]_vars

\* handleError has called H2 for the key 404 in the registry that was
\* constructed with H1 under 404: H1 was replaced by registerHandler.
C12_Witness ==
    /\ Handled
    /\ baseError = "BaseF"
    /\ ResolvesTo(handlerRegistry, last.arg, "404")
    /\ last.invoked # <<>>
    /\ last.invoked[1].fn = "H2"

\* after is before without the entry of key, and every other entry as it was.
RemovesEntry(before, after, key) ==
    /\ DOMAIN after = (DOMAIN before) \ {key}
    /\ \A k \in DOMAIN after : after[k] = before[k]

\* The record would resolve to key if key had an entry: a seeker yields key,
\* and no earlier seeker yields a key with an entry.
WouldResolveTo(registry, record, key) ==
    \E i \in 1..Len(seekers) :
        /\ NotNullish(Get(record, seekers[i]))
        /\ KeyAt(record, i) = key
        /\ \A j \in Matching(registry, record) : i < j

\* createError went to its fallback: baseError when there is one, and else
\* the generic Error, with no creator invoked.
FellThrough(obs) ==
    IF baseError # NoCreator
    THEN UsedOnly(obs, baseError)
    ELSE obs.invoked = <<>> /\ obs.outcome = "returned" /\ obs.value.kind = "Error"

\* unregisterError has just removed an entry, and createError is called next
\* on data that resolved to the removed key.
CreateAfterUnregister ==
    /\ last.op = "unregisterError"
    /\ last.fn # NoCreator
    /\ last'.op = "createError"
    /\ WouldResolveTo(errorRegistry, last'.arg, String(last.arg))

HandleAfterUnregister ==
    /\ last.op = "unregisterHandler"
    /\ last.fn # NoHandler
    /\ last'.op = "handleError"
    /\ WouldResolveTo(handlerRegistry, last'.arg, String(last.arg))

C15_ClearEmptiesBoth ==
    /\ last.op = "clear" =>
           /\ errorRegistry = EmptyMap
           /\ handlerRegistry = EmptyMap
           /\ last.outcome = "returned"
    /\ (Created /\ errorRegistry = EmptyMap) => FellThrough(last)
    /\ (Handled /\ handlerRegistry = EmptyMap) => (last.invoked = <<>> /\ last.call = 0)

\* handleError called no handler for a CustomError with the status 404, in
\* the registry that was constructed with a creator under 404 and a handler
\* under CustomError and holds no entry now.
C15_Witness ==
    /\ Handled
    /\ baseError = "BaseC"
    /\ errorRegistry = EmptyMap
    /\ handlerRegistry = EmptyMap
    /\ last.arg.t = "object"
    /\ last.arg.ctor = "CustomError"
    /\ Get(last.arg, "status") = Num(404)
    /\ last.outcome = "resolved"

\* What the step that led to the observation obs makes of a map: the calls
\* named set, remove and clear have their effect on it, and no other call
\* has any.
Follows(before, after, obs, set, remove) ==
    CASE obs.op = set -> SetsEntry(before, after, String(obs.arg), obs.fn)
      [] obs.op = remove -> RemovesEntry(before, after, String(obs.arg))
      [] obs.op = "clear" -> after = EmptyMap
      [] OTHER -> after = before

\* createError used the entry the error map holds for the data, and went to
\* its fallback when the map holds none.
ReadsErrorMap(obs, registry) ==
    IF Matching(registry, obs.arg) # {}
    THEN UsedOnly(obs, registry[KeyAt(obs.arg, FirstMatching(registry, obs.arg))])
    ELSE FellThrough(obs)

\* handleError called the handler the handler map holds for the error, under
\* a seeker's key or else under the constructor name, and none when the map
\* holds none.
ReadsHandlerMap(obs, registry) ==
    IF Matching(registry, obs.arg) # {}
    THEN obs.invoked =
             <<HandlerCall(registry[KeyAt(obs.arg, FirstMatching(registry, obs.arg))],
                           obs.arg, obs.ctx)>>
    ELSE IF obs.arg.t = "object" /\ MapHas(registry, obs.arg.ctor)
         THEN obs.invoked = <<HandlerCall(registry[obs.arg.ctor], obs.arg, obs.ctx)>>
         ELSE obs.invoked = <<>>

\* C16: every registerError, registerHandler, unregisterError,
\* unregisterHandler and clear has its whole effect on the maps in the step of
\* the call, the maps change in no other step, and createError and
\* handleError use the entries the maps hold when they are called: the entry
\* used for a key is that of the latest registration not removed or cleared
\* since, and none otherwise.
C16_MutationsImmediatelyVisible ==
    /\ [][/\ Follows(errorRegistry, errorRegistry', last',
                     "registerError", "unregisterError")
          /\ Follows(handlerRegistry, handlerRegistry', last',
                     "registerHandler", "unregisterHandler")]_vars
    /\ []((Created => ReadsErrorMap(last, errorRegistry))
          /\ (Handled => ReadsHandlerMap(last, handlerRegistry)))

\* In a registry constructed with no entry, handleError has called the
\* handler registered since under K1, and createError would find the error
\* map with an entry registered since as well.
C16_Witness ==
    /\ Handled
    /\ baseError = NoCreator
    /\ ResolvesTo(handlerRegistry, last.arg, "K1")
    /\ last.invoked # <<>>
    /\ last.invoked[1].fn = "H1"
    /\ MapHas(errorRegistry, "404")
    /\ ~MapHas(handlerRegistry, "404")

-----------------------------------------------------------------------------
(* Keys.                                                                    *)

\* The text of a key given as a string or as a number: the string itself, or
\* the decimal digits of the number.
KeyText(value) == IF value.t = "number" THEN ToString(value.n) ELSE value.s

\* The seekers whose value in the record is a string or a number whose text
\* has an entry in the registry, and the text the first of them yields.
MatchingText(registry, record) ==
    {i \in 1..Len(seekers) :
        /\ Get(record, seekers[i]).t \in {"string", "number"}
        /\ KeyText(Get(record, seekers[i])) \in DOMAIN registry}
FirstText(registry, record) ==
    KeyText(Get(record, seekers[CHOOSE i \in MatchingText(registry, record) :
                                   \A j \in MatchingText(registry, record) : i <= j]))

\* C17: a key given as the number n and a key given as the string of n are
\* one key. registerError and registerHandler leave their entry under the
\* text of the key, a seeker value finds the entry by its text whether it is
\* a number or a string, and so does a key of the configuration.
C17_KeysAreStrings ==
    /\ last.op = "registerError" => MapGet(errorRegistry, KeyText(last.arg)) = last.fn
    /\ last.op = "registerHandler" => MapGet(handlerRegistry, KeyText(last.arg)) = last.fn
    /\ (Created /\ MatchingText(errorRegistry, last.arg) # {}) =>
           UsedOnly(last, errorRegistry[FirstText(errorRegistry, last.arg)])
    /\ (Handled /\ MatchingText(handlerRegistry, last.arg) # {}) =>
           /\ Len(last.invoked) = 1
           /\ last.invoked[1].fn = handlerRegistry[FirstText(handlerRegistry, last.arg)]

\* errors {404: F2} in the configuration, and createError on data with the
\* number 404 as status has returned what F2 made.
C17_Witness ==
    /\ Created
    /\ baseError = "BaseC"
    /\ Get(last.arg, "status") = Num(404)
    /\ MatchingText(errorRegistry, last.arg) # {}
    /\ last.outcome = "returned"
    /\ last.value.by = "F2"

-----------------------------------------------------------------------------
(* Seekers.                                                                 *)

\* The configuration the registry was constructed from; the configurations
\* of the model differ in their baseError.
Constructed == CHOOSE config \in Configs : config.baseError = baseError

\* The seekers the registry is to use: the list given when there is one and
\* it is not empty, and code, status otherwise.
ExpectedSeekers ==
    IF Constructed.t = "object" /\ Constructed.seekers # <<>>
    THEN Constructed.seekers
    ELSE <<"code", "status">>

\* The positions of list whose property has, in the record, a value that is
\* not null and whose key has an entry in the registry.
MatchingIn(list, registry, record) ==
    {i \in 1..Len(list) :
        /\ NotNullish(Get(record, list[i]))
        /\ MapHas(registry, String(Get(record, list[i])))}

\* The entry of the first of them in the order of list.
FirstEntryIn(list, registry, record) ==
    LET i == CHOOSE h \in MatchingIn(list, registry, record) :
                 \A j \in MatchingIn(list, registry, record) : h <= j
    IN  registry[String(Get(record, list[i]))]

\* C18: the seekers of the registry are code, status, in that order, when
\* the option is omitted or is the empty list, and exactly the given list
\* otherwise; createError and handleError look the properties up in the
\* order of that list and use the first that has an entry.
C18_SeekersDefault ==
    /\ seekers = ExpectedSeekers
    /\ (Created /\ MatchingIn(ExpectedSeekers, errorRegistry, last.arg) # {}) =>
           UsedOnly(last, FirstEntryIn(ExpectedSeekers, errorRegistry, last.arg))
    /\ (Handled /\ MatchingIn(ExpectedSeekers, handlerRegistry, last.arg) # {}) =>
           /\ Len(last.invoked) = 1
           /\ last.invoked[1].fn = FirstEntryIn(ExpectedSeekers, handlerRegistry, last.arg)

\* Constructed with seekers: ["status", "code"]; both properties of the data
\* have an entry, with different creators, and createError used the creator
\* of status.
C18_Witness ==
    /\ Created
    /\ Constructed.seekers = <<"status", "code">>
    /\ MatchingIn(<<"code", "status">>, errorRegistry, last.arg) = {1, 2}
    /\ errorRegistry[String(Get(last.arg, "code"))]
           # errorRegistry[String(Get(last.arg, "status"))]
    /\ last.outcome = "returned"
    /\ last.value.by = errorRegistry[String(Get(last.arg, "status"))]

-----------------------------------------------------------------------------
(* The two maps.                                                            *)

\* C19: registerError and unregisterError leave the handler map as it was,
\* registerHandler and unregisterHandler leave the error map as it was;
\* handleError calls the handler of a key that has no creator, and
\* createError uses the creator of a key that has no handler.
C19_MapsIndependent ==
    /\ [][/\ last'.op \in {"registerError", "unregisterError"} =>
                 handlerRegistry' = handlerRegistry
          /\ last'.op \in {"registerHandler", "unregisterHandler"} =>
                 errorRegistry' = errorRegistry]_vars
    /\ []((Handled /\ Matching(handlerRegistry, last.arg) # {}) =>
              LET key == KeyAt(last.arg, FirstMatching(handlerRegistry, last.arg))
              IN  ~MapHas(errorRegistry, key) =>
                      last.invoked =
                          <<HandlerCall(handlerRegistry[key], last.arg, last.ctx)>>)
    /\ []((Created /\ Matching(errorRegistry, last.arg) # {}) =>
              LET key == KeyAt(last.arg, FirstMatching(errorRegistry, last.arg))
              IN  ~MapHas(handlerRegistry, key) => UsedOnly(last, errorRegistry[key]))

\* handleError has called the handler of 404, a key with no creator, while
\* the error map holds a creator for another key.
C19_Witness ==
    /\ Handled
    /\ ResolvesTo(handlerRegistry, last.arg, "404")
    /\ ~MapHas(errorRegistry, "404")
    /\ MapHas(errorRegistry, "K1")
    /\ ~MapHas(handlerRegistry, "K1")
    /\ last.invoked # <<>>

-----------------------------------------------------------------------------
(* Failing handlers.                                                        *)

\* C20: when the handler handleError called throws, or what it returned is
\* rejected, the promise of handleError is rejected with that same failure;
\* the call has invoked that one handler once and invokes nothing more.
C20_HandlerFailurePropagates ==
    /\ (Handled /\ last.hstate = "threw") =>
           /\ last.outcome = "rejected"
           /\ last.value = HandlerFailure
           /\ Len(last.invoked) = 1
           /\ last.call = 0
    /\ (last.op = "handleErrorSettled" /\ last.hstate = "rejected") =>
           /\ last.outcome = "rejected"
           /\ last.value = HandlerFailure
           /\ Len(last.invoked) = 1
           /\ calls[last.call] = Free
    /\ last.op # "handleErrorResumed"
    /\ \A c \in Slots : calls[c] # Free => (calls[c].n = 1 /\ calls[c].rest = <<>>)

\* What an asynchronous handler returned was rejected, and the promise of
\* handleError has been rejected with it.
C20_Witness ==
    /\ last.op = "handleErrorSettled"
    /\ last.hstate = "rejected"
    /\ last.outcome = "rejected"
    /\ last.value = HandlerFailure

-----------------------------------------------------------------------------
(* Failing creators.                                                        *)

\* C21: when the creator createError invoked, an entry of the error map or
\* baseError, throws, createError throws that same exception; it has
\* invoked that one creator and no other, returns nothing in its place, and
\* a createError step leaves both maps as they were.
C21_CreatorFailurePropagates ==
    /\ []((Created /\ last.hstate = "threw") =>
              /\ last.outcome = "threw"
              /\ last.value = [NoValue EXCEPT !.message = "creator"]
              /\ Len(last.invoked) = 1)
    /\ [][last'.op = "createError" =>
              (errorRegistry' = errorRegistry /\ handlerRegistry' = handlerRegistry)]_vars

\* baseError was invoked for data with no registered key, threw, and
\* createError threw.
C21_Witness ==
    /\ Created
    /\ last.hstate = "threw"
    /\ last.outcome = "threw"
    /\ Matching(errorRegistry, last.arg) = {}
    /\ last.invoked[1].fn = baseError

-----------------------------------------------------------------------------
(* createError and the state.                                               *)

\* C22: a createError step changes neither map, nor the seekers, nor
\* baseError, nor any handleError call in flight; and a createError that
\* follows another on the same data, with the creator behaving the same,
\* has the same result.
C22_CreateErrorMutatesNothing ==
    [][/\ (last'.op = "createError") =>
              UNCHANGED <<errorRegistry, handlerRegistry, seekers, baseError>>
       /\ (last'.op = "createError" /\ last' # last) => UNCHANGED calls
       /\ (/\ last.op = "createError"
           /\ last'.op = "createError"
           /\ last'.arg = last.arg
           /\ last'.hstate = last.hstate) => last' = last]_vars

\* createError has returned while both maps hold entries and a handleError
\* call is waiting for its handler.
C22_Witness ==
    /\ Created
    /\ last.outcome = "returned"
    /\ errorRegistry # EmptyMap
    /\ handlerRegistry # EmptyMap
    /\ \E c \in Slots : calls[c] # Free /\ calls[c].hstate = "pending"

-----------------------------------------------------------------------------
(* The order of resolution.                                                 *)

\* Seeker i is the first whose value in the record is not null and whose key
\* has an entry in the registry.
FirstHit(registry, record, i) ==
    /\ i \in Matching(registry, record)
    /\ \A j \in Matching(registry, record) : i <= j

\* Seeker i has a value in the record that is not null, and its key has no
\* entry in the registry.
Miss(registry, record, i) ==
    /\ i \in 1..Len(seekers)
    /\ NotNullish(Get(record, seekers[i]))
    /\ ~MapHas(registry, KeyAt(record, i))

\* C23: of the seekers whose value is not null, the first in the order of
\* the list whose key has an entry decides: createError uses its creator and
\* handleError calls its handler, whether or not a later seeker has an entry
\* too, and whether or not an earlier seeker has a value with no entry.
C23_FirstHitWins ==
    /\ Created =>
           \A i \in 1..Len(seekers) :
               FirstHit(errorRegistry, last.arg, i) =>
                   UsedOnly(last, errorRegistry[KeyAt(last.arg, i)])
    /\ Handled =>
           \A i \in 1..Len(seekers) :
               FirstHit(handlerRegistry, last.arg, i) =>
                   last.invoked =
                       <<HandlerCall(handlerRegistry[KeyAt(last.arg, i)],
                                     last.arg, last.ctx)>>

\* The first seeker has a value with no entry, the second has one with an
\* entry, and createError has returned what the creator of the second made.
C23_Witness ==
    /\ Created
    /\ Miss(errorRegistry, last.arg, 1)
    /\ FirstHit(errorRegistry, last.arg, 2)
    /\ last.outcome = "returned"
    /\ last.value.by = errorRegistry[KeyAt(last.arg, 2)]

\* Seeker i is the first whose value in the record is not null.
FirstValue(record, i) ==
    /\ i \in 1..Len(seekers)
    /\ NotNullish(Get(record, seekers[i]))
    /\ \A j \in 1..(i - 1) : ~NotNullish(Get(record, seekers[j]))

\* C24 as stated: createError takes its key from the first seeker whose
\* value is not null and looks no further; when that key has no entry it
\* goes to baseError or the generic Error, whatever the later seekers yield.
C24_Stated_Positional ==
    Created =>
        \A i \in 1..Len(seekers) :
            (FirstValue(last.arg, i) /\ Miss(errorRegistry, last.arg, i)) =>
                FellThrough(last)

\* C24, amended: when the key of the first seeker whose value is not null
\* has no entry, createError goes on to the later seekers and uses the
\* creator of the first of them whose key has an entry; it goes to baseError
\* or the generic Error only when no seeker yields a key with an entry.
C24_ScansPastAMiss ==
    Created =>
        \A i \in 1..Len(seekers) :
            (FirstValue(last.arg, i) /\ Miss(errorRegistry, last.arg, i)) =>
                IF \E h \in (i + 1)..Len(seekers) : h \in Matching(errorRegistry, last.arg)
                THEN \E h \in (i + 1)..Len(seekers) :
                        /\ FirstHit(errorRegistry, last.arg, h)
                        /\ UsedOnly(last, errorRegistry[KeyAt(last.arg, h)])
                ELSE FellThrough(last)

\* With a baseError configured, the first seeker has a value with no entry
\* and the second one with an entry; createError has used the entry of the
\* second and not baseError.
C24_Witness ==
    /\ Created
    /\ baseError # NoCreator
    /\ FirstValue(last.arg, 1)
    /\ Miss(errorRegistry, last.arg, 1)
    /\ 2 \in Matching(errorRegistry, last.arg)
    /\ Len(last.invoked) = 1
    /\ last.invoked[1].fn = errorRegistry[KeyAt(last.arg, 2)]
    /\ last.invoked[1].fn # baseError

\* handleError did what the lookup by constructor name alone gives: it
\* called the handler under the name of the error's constructor, or none.
ByConstructorName(obs) ==
    IF obs.arg.t = "object" /\ MapHas(handlerRegistry, obs.arg.ctor)
    THEN obs.invoked = <<HandlerCall(handlerRegistry[obs.arg.ctor], obs.arg, obs.ctx)>>
    ELSE obs.invoked = <<>>

\* C25 as stated: when the key of the first seeker whose value is not null
\* has no handler, handleError goes to the lookup by constructor name, and
\* calls no handler of a later seeker's key.
C25_Stated_ConstructorNameAfterMiss ==
    Handled =>
        \A i \in 1..Len(seekers) :
            (FirstValue(last.arg, i) /\ Miss(handlerRegistry, last.arg, i)) =>
                ByConstructorName(last)

\* C25, amended: when the key of the first seeker whose value is not null
\* has no handler, handleError goes on to the later seekers and calls the
\* handler of the first of them whose key has one; it looks the constructor
\* name up only when no seeker yields a key with a handler.
C25_LaterSeekerBeforeConstructorName ==
    Handled =>
        \A i \in 1..Len(seekers) :
            (FirstValue(last.arg, i) /\ Miss(handlerRegistry, last.arg, i)) =>
                IF \E h \in (i + 1)..Len(seekers) : h \in Matching(handlerRegistry, last.arg)
                THEN \E h \in (i + 1)..Len(seekers) :
                        /\ FirstHit(handlerRegistry, last.arg, h)
                        /\ last.invoked =
                               <<HandlerCall(handlerRegistry[KeyAt(last.arg, h)],
                                             last.arg, last.ctx)>>
                ELSE ByConstructorName(last)

\* The first seeker has a value with no handler, the second one with a
\* handler, the constructor name has none, and handleError has called the
\* handler of the second seeker's key.
C25_Witness ==
    /\ Handled
    /\ FirstValue(last.arg, 1)
    /\ Miss(handlerRegistry, last.arg, 1)
    /\ 2 \in Matching(handlerRegistry, last.arg)
    /\ ~MapHas(handlerRegistry, last.arg.ctor)
    /\ Len(last.invoked) = 1
    /\ last.invoked[1].fn = handlerRegistry[KeyAt(last.arg, 2)]

-----------------------------------------------------------------------------
(* Records that are null, and values that are falsy.                        *)

\* The record handed to the call is null or undefined.
NullRecord(obs) == obs.arg.t \in {"null", "undefined"}

\* C26: a null or undefined record is a record no seeker matches, in both
\* operations: createError goes to baseError or the generic Error, and
\* handleError, which finds no handler for it, calls none and resolves.
C26_NullRecordIsNoMatch ==
    /\ (Created /\ NullRecord(last)) => FellThrough(last)
    /\ (Handled /\ NullRecord(last)) =>
           (last.invoked = <<>> /\ last.outcome = "resolved")

\* The key the text gives a falsy value.
FalsyText(value) ==
    CASE value = Bool(FALSE) -> "false"
      [] value = Num(0) -> "0"
      [] OTHER -> ""

\* Seeker i reads false, 0 or "" from the record, the text of that value has
\* an entry in the registry, and every earlier seeker reads null or undefined
\* or a falsy value whose text has no entry.
FalsyHit(registry, record, i) ==
    /\ i \in 1..Len(seekers)
    /\ Get(record, seekers[i]) \in FalsyValues
    /\ MapHas(registry, FalsyText(Get(record, seekers[i])))
    /\ \A j \in 1..(i - 1) :
           LET v == Get(record, seekers[j])
           IN  \/ v \in {Null, Undefined}
               \/ v \in FalsyValues /\ ~MapHas(registry, FalsyText(v))

\* C27: a seeker value of false, 0 or "" is looked up under "false", "0" or
\* "", and the creator or the handler registered under that key is the one
\* invoked; such a value is not skipped the way null and undefined are.
C27_FalsyValuesAreKeys ==
    /\ Created =>
           \A i \in 1..Len(seekers) :
               FalsyHit(errorRegistry, last.arg, i) =>
                   /\ Len(last.invoked) = 1
                   /\ last.invoked[1].fn =
                          errorRegistry[FalsyText(Get(last.arg, seekers[i]))]
                   /\ last.invoked[1].args = <<last.arg>>
    /\ Handled =>
           \A i \in 1..Len(seekers) :
               FalsyHit(handlerRegistry, last.arg, i) =>
                   /\ Len(last.invoked) = 1
                   /\ last.invoked[1].fn =
                          handlerRegistry[FalsyText(Get(last.arg, seekers[i]))]

\* With the default seekers, createError on a record whose code is "" and
\* whose status is 0 has invoked the creator registered under "", while the
\* keys "false" and "0" have entries as well.
C27_Witness ==
    /\ Created
    /\ seekers = defaultSeekers
    /\ Get(last.arg, "code") = Str("")
    /\ Get(last.arg, "status") = Num(0)
    /\ {"", "0", "false"} \subseteq DOMAIN errorRegistry
    /\ Len(last.invoked) = 1
    /\ last.invoked[1].fn = errorRegistry[""]

-----------------------------------------------------------------------------
(* How a creator is invoked.                                                *)

\* The creator createError is to use for the record: the entry of the first
\* matching seeker, else baseError (NoCreator when there is neither).
Found(record) ==
    IF Matching(errorRegistry, record) # {}
    THEN errorRegistry[KeyAt(record, FirstMatching(errorRegistry, record))]
    ELSE baseError

\* C28: the creator found, a registry entry or baseError, is invoked exactly
\* once with data as its only argument: a class with new, a factory by a
\* plain call; what that invocation made is what createError returns. This
\* holds whether the entry came from config.errors or from registerError.
C28_ConstructorOrFactoryDispatch ==
    Created =>
        /\ (Found(last.arg) # NoCreator) = (last.invoked # <<>>)
        /\ last.invoked # <<>> =>
               LET call == last.invoked[1]
               IN  /\ Len(last.invoked) = 1
                   /\ call.fn = Found(last.arg)
                   /\ call.args = <<last.arg>>
                   /\ call.fn \in Classes => call.how = "new"
                   /\ call.fn \in Arrows => call.how = "call"
                   /\ last.hstate # "threw" =>
                          /\ last.outcome = "returned"
                          /\ last.value =
                                 [kind |-> "instance", by |-> call.fn, how |-> call.how,
                                  arg |-> last.arg, message |-> ""]

\* A registry built with no config, so that the factory F2 was added by
\* registerError: createError has called F2 as a plain function and returned
\* what it made.
C28_Witness ==
    /\ Created
    /\ baseError = NoCreator
    /\ last.invoked = <<Invocation("F2", "call", <<last.arg>>)>>
    /\ last.outcome = "returned"
    /\ last.value.by = "F2"
    /\ last.value.how = "call"

-----------------------------------------------------------------------------
(* Seekers whose value is null or undefined.                                *)

\* The record has null or undefined, or nothing, under seeker i.
Absent(record, i) == Get(record, seekers[i]) \in {Null, Undefined}

\* C29: a seeker whose value is null or undefined is skipped and the scan
\* goes on. With the default seekers, a record whose code is null or
\* undefined and whose status has an entry gets the creator of its status;
\* in any order, an entry of seeker i is used when every seeker before i is
\* absent; and a record with every seeker absent gets baseError or, without
\* one, the generic Error with data.message ("Unknown error" without one).
C29_NullValuesAreSkipped ==
    Created =>
        /\ (/\ seekers = defaultSeekers
            /\ Get(last.arg, "code") \in {Null, Undefined}
            /\ Get(last.arg, "status") \notin {Null, Undefined}
            /\ MapHas(errorRegistry, KeyText(Get(last.arg, "status")))) =>
               UsedOnly(last, errorRegistry[KeyText(Get(last.arg, "status"))])
        /\ \A i \in 1..Len(seekers) :
               (/\ \A j \in 1..(i - 1) : Absent(last.arg, j)
                /\ ~Absent(last.arg, i)
                /\ MapHas(errorRegistry, KeyText(Get(last.arg, seekers[i])))) =>
                   UsedOnly(last, errorRegistry[KeyText(Get(last.arg, seekers[i]))])
        /\ (\A i \in 1..Len(seekers) : Absent(last.arg, i)) =>
               IF baseError # NoCreator
               THEN UsedOnly(last, baseError)
               ELSE /\ last.invoked = <<>>
                    /\ last.outcome = "returned"
                    /\ last.value =
                           GenericError(IF Get(last.arg, "message") \in {Null, Undefined}
                                        THEN "Unknown error"
                                        ELSE Get(last.arg, "message").s)

\* With the default seekers, createError on a record with code null and
\* status 404 has used the creator registered under "404".
C29_Witness ==
    /\ Created
    /\ seekers = defaultSeekers
    /\ Get(last.arg, "code") = Null
    /\ Get(last.arg, "status") = Num(404)
    /\ MapHas(errorRegistry, "404")
    /\ last.outcome = "returned"
    /\ last.value.by = errorRegistry["404"]

-----------------------------------------------------------------------------
(* What an unregister call leaves alone.                                    *)

\* The step from before to after took nothing but the entry of key, if any,
\* out of the map, and nothing at all when key had no entry.
RemovesAtMost(before, after, key) ==
    /\ ~MapHas(before, key) => after = before
    /\ MapHas(before, key) =>
           /\ DOMAIN after = (DOMAIN before) \ {key}
           /\ \A k \in DOMAIN after : after[k] = before[k]

\* C30: unregisterError(k) and unregisterHandler(k) return normally; on a
\* key with no entry they change neither map, and on a key with an entry
\* they remove that entry only, keeping every other entry of the map and
\* the whole of the other map.
C30_UnregisterFrame ==
    /\ [](last.op \in {"unregisterError", "unregisterHandler"} =>
              last.outcome = "returned")
    /\ [][/\ last'.op = "unregisterError" =>
                 /\ RemovesAtMost(errorRegistry, errorRegistry', KeyText(last'.arg))
                 /\ handlerRegistry' = handlerRegistry
          /\ last'.op = "unregisterHandler" =>
                 /\ RemovesAtMost(handlerRegistry, handlerRegistry', KeyText(last'.arg))
                 /\ errorRegistry' = errorRegistry]_vars

\* unregisterError has just been called on a key with no entry, and both
\* maps hold entries.
C30_Witness ==
    /\ last.op = "unregisterError"
    /\ last.fn = NoCreator
    /\ ~MapHas(errorRegistry, KeyText(last.arg))
    /\ errorRegistry # EmptyMap
    /\ handlerRegistry # EmptyMap

-----------------------------------------------------------------------------
(* The configuration captured at construction.                              *)

\* C31: no operation of a registry changes its seekers or its baseError;
\* a createError that follows clear() on a registry with a baseError
\* invokes baseError, and so does every createError that finds no entry.
C31_ConstructionConfigImmutable ==
    /\ [][/\ UNCHANGED <<seekers, baseError>>
          /\ (/\ last.op = "clear" /\ last'.op = "createError"
              /\ baseError # NoCreator) => UsedOnly(last', baseError)]_vars
    /\ []((Created /\ baseError # NoCreator /\ Matching(errorRegistry, last.arg) = {}) =>
              UsedOnly(last, baseError))
    /\ [](\E config \in Configs :
              seekers = OptsSeekers(config) /\ baseError = config.baseError)

\* A registry with a baseError whose maps have been emptied: createError on
\* a record with code K1 and status 404 has invoked baseError.
C31_Witness ==
    /\ Created
    /\ baseError # NoCreator
    /\ errorRegistry = EmptyMap
    /\ handlerRegistry = EmptyMap
    /\ Get(last.arg, "code") = Str("K1")
    /\ Get(last.arg, "status") = Num(404)
    /\ UsedOnly(last, baseError)
    /\ last.outcome = "returned"

-----------------------------------------------------------------------------
(* clear() among suspended calls.                                           *)

\* Some handleError call is suspended at its await.
SomeCallSuspended == \E c \in Slots : calls[c] # Free

\* C32: clear() leaves no state in which one map is emptied and the other
\* is not, or a map is emptied in part: when clear() has returned both maps
\* are empty, the createError or handleError that follows it finds no entry
\* in either, and the steps of suspended handleError calls, which may stand
\* on either side of clear(), change no map.
C32_ClearIsAtomic ==
    /\ [](last.op = "clear" => (errorRegistry = EmptyMap /\ handlerRegistry = EmptyMap))
    /\ [][/\ (last.op = "clear" /\ last'.op = "createError") => FellThrough(last')
          /\ (last.op = "clear" /\ last'.op = "handleError") => last'.invoked = <<>>
          /\ (last'.op \in {"handleErrorResumed", "handleErrorSettled"}) =>
                 UNCHANGED <<errorRegistry, handlerRegistry>>
          /\ (last' = last) => UNCHANGED <<errorRegistry, handlerRegistry>>]_vars

\* clear() has just returned while a handleError call is suspended in its
\* handler, and both maps are empty.
C32_Witness ==
    /\ last.op = "clear"
    /\ SomeCallSuspended
    /\ errorRegistry = EmptyMap
    /\ handlerRegistry = EmptyMap

-----------------------------------------------------------------------------
(* The entries a registry starts with.                                      *)

\* What the config gives for an option: its entries, keyed by the strings
\* an object has for keys, and nothing for an option or a config left out.
Given(config, option) ==
    IF config.t = "undefined" \/ option \in Omitted(config)
    THEN <<>> ELSE config[option]

\* C33: when createErrorRegistry returns, the error map holds exactly the
\* entries of config.errors and the handler map exactly those of
\* config.handlers (none for an omitted option or config); an entry is used
\* by createError and by handleError, and replaced by a registration, in
\* the same way whether it was there from construction or added later.
C33_InitialEntries ==
    /\ [](last.op = "createErrorRegistry" =>
              /\ errorRegistry = Given(last.arg, "errors")
              /\ handlerRegistry = Given(last.arg, "handlers"))
    /\ []((Created /\ Matching(errorRegistry, last.arg) # {}) =>
              UsedOnly(last, Found(last.arg)))
    /\ []((Handled /\ Matching(handlerRegistry, last.arg) # {}) =>
              last.invoked =
                  <<HandlerCall(handlerRegistry[KeyAt(last.arg,
                                    FirstMatching(handlerRegistry, last.arg))],
                                last.arg, last.ctx)>>)
    /\ [][/\ last'.op = "registerError" =>
                 MapGet(errorRegistry', KeyText(last'.arg)) = last'.fn
          /\ last'.op = "registerHandler" =>
                 MapGet(handlerRegistry', KeyText(last'.arg)) = last'.fn]_vars

\* A registry built from a config that gives errors only: createError on a
\* record with code ZZ has used the creator the config gave for ZZ, a key no
\* registration uses.
C33_Witness ==
    /\ Created
    /\ Get(last.arg, "code") = Str("ZZ")
    /\ MapGet(errorRegistry, "ZZ") = "C1"
    /\ UsedOnly(last, "C1")
    /\ last.outcome = "returned"
    /\ handlerRegistry = EmptyMap

-----------------------------------------------------------------------------
(* Two registries.                                                          *)

\* The registry being called, as a closure.
This == Registry(errorRegistry, handlerRegistry, seekers, baseError)

\* C34: every operation on one registry leaves the other registry as it
\* was, turning to the other registry changes neither, and what createError
\* and handleError do is decided by the maps of the registry called alone,
\* whatever the other one holds.
C34_InstancesIsolated ==
    /\ [][/\ last'.op # "select" => other' = other
          /\ last'.op = "select" =>
                 \/ This' = other /\ other' = This
                 \/ This' = This /\ other' = other]_vars
    /\ [](Created =>
              /\ Matching(errorRegistry, last.arg) # {} => UsedOnly(last, Found(last.arg))
              /\ Matching(errorRegistry, last.arg) = {} => FellThrough(last))
    /\ [](Handled =>
              IF Matching(handlerRegistry, last.arg) # {}
              THEN last.invoked =
                       <<HandlerCall(handlerRegistry[KeyAt(last.arg,
                                         FirstMatching(handlerRegistry, last.arg))],
                                     last.arg, last.ctx)>>
              ELSE IF MapHas(handlerRegistry, last.arg.ctor)
                   THEN Len(last.invoked) = 1
                   ELSE last.invoked = <<>>)

\* Two registries built with no config: the other one has a creator for K1,
\* this one has none, and createError on a record with code K1 has made the
\* generic Error here.
C34_Witness ==
    /\ Created
    /\ baseError = NoCreator
    /\ other.baseError = NoCreator
    /\ Get(last.arg, "code") = Str("K1")
    /\ errorRegistry = EmptyMap
    /\ MapHas(other.errorRegistry, "K1")
    /\ last.invoked = <<>>
    /\ last.value.kind = "Error"

-----------------------------------------------------------------------------
(* Suspended calls and the handler map.                                     *)

\* The handler handleError finds for the error in the handler map as it is.
Chosen(error) ==
    IF Matching(handlerRegistry, error) # {}
    THEN handlerRegistry[KeyAt(error, FirstMatching(handlerRegistry, error))]
    ELSE MapGet(handlerRegistry, error.ctor)

\* C35: a handleError call runs the handler the map gives at the moment of
\* the call. While the call is suspended, no step, a registerHandler,
\* unregisterHandler or clear included, replaces that handler or adds a
\* second invocation; the call settles with the outcome of that one handler.
C35_HandlerChosenAtCall ==
    /\ []((Handled /\ last.outcome = "pending") =>
              /\ calls[last.call].handler = Chosen(last.arg)
              /\ last.invoked = <<HandlerCall(Chosen(last.arg), last.arg, last.ctx)>>)
    /\ [](\A c \in Slots : calls[c] # Free => (calls[c].n = 1 /\ calls[c].rest = <<>>))
    /\ [][\A c \in Slots :
              /\ (calls[c] # Free /\ calls'[c] # Free) =>
                     /\ calls'[c].handler = calls[c].handler
                     /\ calls'[c].n = calls[c].n
              /\ (calls[c] # Free /\ calls'[c] = Free) =>
                     /\ last'.op = "handleErrorSettled"
                     /\ last'.call = c
                     /\ last'.invoked = <<Invocation(calls[c].handler, "call", <<>>)>>
                     /\ last'.outcome =
                            IF calls[c].hstate = "fulfilled" THEN "resolved" ELSE "rejected"
              /\ (calls[c] # Free /\ last'.op \in {"registerHandler", "unregisterHandler",
                                                    "clear"}) =>
                     calls'[c] # Free]_vars

\* A handleError call has resolved after its handler H1 completed, and the
\* handler map is empty: the entry was removed while the handler ran.
C35_Witness ==
    /\ last.op = "handleErrorSettled"
    /\ last.outcome = "resolved"
    /\ last.invoked[1].fn = "H1"
    /\ handlerRegistry = EmptyMap
    /\ errorRegistry # EmptyMap

-----------------------------------------------------------------------------
(* Overlapping calls.                                                       *)

\* Call c is suspended in a handler whose promise has not settled.
Hanging(c) == calls[c] # Free /\ calls[c].hstate = "pending"

\* A further handleError call that finds a handler and gets as far as its
\* await.
StartsAnother ==
    \E error \in OverlapErrors, behaviour \in {"returns", "async"} :
        /\ Chosen(error) # NoHandler
        /\ HandleErrorStep(error, <<>>, behaviour)

\* C36: every handleError call that finds a handler invokes it, once, also
\* while other calls are suspended in the same handler; a call whose
\* handler does not complete stays as it is under the steps of the others
\* and stops none of them: createError, the registrations, a further
\* handleError call and the continuation of another call can all be taken.
C36_OverlappingCallsIndependent ==
    /\ []((Handled /\ Chosen(last.arg) # NoHandler) =>
              last.invoked = <<HandlerCall(Chosen(last.arg), last.arg, last.ctx)>>)
    /\ [](\A c \in DOMAIN calls : calls[c] # Free => calls[c].n = 1)
    /\ [](\A c \in DOMAIN calls : Hanging(c) =>
              /\ ENABLED CreateErrorTwo
              /\ ENABLED RegisterErrorTwo
              /\ ENABLED RegisterHandlerOverlap
              /\ (/\ \E d \in DOMAIN calls : calls[d] = Free
                  /\ \E error \in OverlapErrors : Chosen(error) # NoHandler) =>
                     ENABLED StartsAnother
              /\ (\E d \in DOMAIN calls : calls[d] # Free /\ ~Hanging(d)) =>
                     ENABLED Resume)
    /\ [][\A c \in DOMAIN calls :
              (/\ Hanging(c)
               /\ last' # last
               /\ last'.op \in {"createError", "registerError", "registerHandler",
                                 "handleError", "handleErrorResumed",
                                 "handleErrorSettled"}
               /\ last'.call # c) => calls'[c] = calls[c]]_vars

\* Two calls are suspended in the same handler: the first has not completed
\* and the second, just made, has invoked the handler as well.
C36_Witness ==
    /\ Handled
    /\ last.call = 2
    /\ Len(last.invoked) = 1
    /\ Hanging(1)
    /\ calls[2] # Free
    /\ calls[2].handler = calls[1].handler

-----------------------------------------------------------------------------
(* What the handler lookup reads.                                           *)

\* The keys the error value itself gives: the text of each seeker property
\* of the error that is not null or undefined, and its constructor name.
OwnKeys(error) ==
    {KeyText(Get(error, seekers[i])) :
        i \in {j \in 1..Len(seekers) : Get(error, seekers[j]) \notin {Null, Undefined}}}
    \cup (IF error.t = "object" /\ error.ctor # "" THEN {error.ctor} ELSE {})

\* The generic Error of createError's last resort as an error value: it has
\* the message, no code and no status, and Error for its constructor.
ErrorObject(value) == Obj(Undefined, Undefined, Str(value.message), "Error")

\* C37: the handler handleError(e) invokes is registered under a key that e
\* itself gives, by a seeker property that is not null or by its constructor
\* name; and handleError on the generic Error that createError has just made
\* of some data invokes no handler registered under a key of that data, only
\* the handler of "Error" when there is one.
C37_LookupReadsTheErrorOnly ==
    /\ []((Handled /\ last.invoked # <<>>) =>
              \E k \in OwnKeys(last.arg) :
                  MapGet(handlerRegistry, k) = last.invoked[1].fn)
    /\ [][(/\ last.op = "createError"
           /\ last.outcome = "returned"
           /\ last.value.kind = "Error"
           /\ last'.op = "handleError"
           /\ last'.arg = ErrorObject(last.value)) =>
              IF MapHas(handlerRegistry, "Error")
              THEN Len(last'.invoked) = 1 /\ last'.invoked[1].fn = handlerRegistry["Error"]
              ELSE last'.invoked = <<>> /\ last'.outcome = "resolved"]_vars

\* handleError on a generic Error with the message of the data, while
\* handlers are registered under K1 and 404: none was invoked.
C37_Witness ==
    /\ Handled
    /\ last.arg = Obj(Undefined, Undefined, Str("boom"), "Error")
    /\ {"K1", "404"} \subseteq DOMAIN handlerRegistry
    /\ baseError = NoCreator
    /\ last.invoked = <<>>
    /\ last.outcome = "resolved"

-----------------------------------------------------------------------------
(* The name the fallback uses.                                              *)

\* C38: when no seeker matches, an error whose constructor is Error, the
\* generic Error that createError has just made included, goes to the
\* handler registered under "Error" and to no other, whatever its name
\* field says; in general the fallback takes the handler of the
\* constructor's name and never that of a different name field.
C38_FallbackUsesConstructorName ==
    /\ []((Handled /\ Matching(handlerRegistry, last.arg) = {}) =>
              IF MapHas(handlerRegistry, last.arg.ctor)
              THEN last.invoked =
                       <<HandlerCall(handlerRegistry[last.arg.ctor], last.arg, last.ctx)>>
              ELSE last.invoked = <<>> /\ last.outcome = "resolved")
    /\ [][(/\ last.op = "createError"
           /\ last.outcome = "returned"
           /\ last.value.kind = "Error"
           /\ last'.op = "handleError"
           /\ last'.arg = Named(ErrorObject(last.value), "Error")
           /\ Matching(handlerRegistry, last'.arg) = {}) =>
              IF MapHas(handlerRegistry, "Error")
              THEN Len(last'.invoked) = 1 /\ last'.invoked[1].fn = handlerRegistry["Error"]
              ELSE last'.invoked = <<>>]_vars

\* An Error whose name field is ValidationError, with no code or status:
\* handlers are registered under "Error" and under "ValidationError", they
\* differ, and handleError has called the one under "Error".
C38_Witness ==
    /\ Handled
    /\ last.arg.ctor = "Error"
    /\ last.arg.name = "ValidationError"
    /\ Matching(handlerRegistry, last.arg) = {}
    /\ MapGet(handlerRegistry, "Error") = "H1"
    /\ MapGet(handlerRegistry, "ValidationError") = "H2"
    /\ Len(last.invoked) = 1
    /\ last.invoked[1].fn = "H1"

=============================================================================
